---- MODULE Spec2Model ----
(***************************************************************************)
(* Model of backend/index.py: the HTTP handlers of the transaction         *)
(* service, the log file they share, and the wallet's transactions on the  *)
(* chain.                                                                  *)
(*                                                                         *)
(* The log file is a sequence of lines; a line is the sequence of fields   *)
(* that line.strip().split(',') yields, each field a token that records    *)
(* what int() and float() make of its text.  The file named by             *)
(* config['logging']['file'] is written by the handlers' f.write calls and *)
(* by the logging.FileHandler installed at line 50 on the same path, so    *)
(* logger.info and logger.error append message lines to it as well.        *)
(*                                                                         *)
(* Amounts are integers; the float comparisons of the moving-average rule  *)
(* are carried out exactly (cur > avg * 1.1 as 100 * cur > 110 * sum/10).  *)
(***************************************************************************)
EXTENDS Integers, Sequences, FiniteSets, TLC

VARIABLES logFile, boot, clock, req, txs, mined, started

vars == <<logFile, boot, clock, req, txs, mined, started>>

----------------------------------------------------------------------------
(* Bounds *)

\* Requests accepted in one behaviour.
MaxRequests == 2

\* Lines an outside writer puts in the log file (SpecEval).
MaxLines == 11

\* Lines of the outside writer that differ from the steady one.
MaxOdd == 2

\* Requests that may be in flight at the same time.
Reqs == {1, 2}

----------------------------------------------------------------------------
(* Program constants *)

window_size == 10

\* avg * 1.1 and avg * 0.9, in percent.
UpperPct == 110

LowerPct == 90

----------------------------------------------------------------------------
(* Text of a field, as int() and float() see it *)

\* str(int): digits only.  int() and float() both accept it.
IntTok(v) == [t |-> "int", v |-> v]

\* str(float): digits with a decimal point.  float() accepts it, int() raises
\* ValueError.
FloatTok(v) == [t |-> "float", v |-> v]

\* Any other text (an address, words of a message): int() and float() raise.
TextTok == [t |-> "text", v |-> 0]

\* A line of the file: who wrote it and the fields split(',') finds in it.
\*   "entry"  f.write of a pipeline operation (three fields)
\*   "price"  f.write of get_pol_price (two fields)
\*   "msg"    a message of the logger's FileHandler
\*   "boot"   a line the file held when the process started
Line(kind, fields) == [kind |-> kind, fields |-> fields]

\* f'{time.time()},{a},{b}\n' : time.time() is a float.
FormatEntry(now, a, b) == Line("entry", <<FloatTok(now), a, b>>)

\* f'{time.time()},{price}\n'
FormatPrice(now, price) == Line("price", <<FloatTok(now), FloatTok(price)>>)

\* A logger message; n is the number of comma-separated pieces of its text.
Message(n) == Line("msg", [i \in 1..n |-> TextTok])

----------------------------------------------------------------------------
(* get_rebalance_insights: reading the file *)

IntOk(tok) == tok.t = "int"

FloatOk(tok) == tok.t \in {"int", "float"}

\* timestamp, amount_a, amount_b = line.strip().split(',')
\* (int(timestamp), float(amount_a), float(amount_b))
\* A line with another number of fields, or a field that int() or float()
\* refuses, raises ValueError.
LineParses(line) ==
    /\ Len(line.fields) = 3
    /\ IntOk(line.fields[1])
    /\ FloatOk(line.fields[2])
    /\ FloatOk(line.fields[3])

ParseLine(line) ==
    [timestamp |-> line.fields[1].v,
     amountA   |-> line.fields[2].v,
     amountB   |-> line.fields[3].v]

\* The loop of lines 313-316: the first line that does not parse raises, and
\* the exception leaves the function (ok = FALSE).
ReadAll(file) ==
    IF \E i \in DOMAIN file : ~LineParses(file[i])
    THEN [ok |-> FALSE, data |-> <<>>]
    ELSE [ok |-> TRUE, data |-> [i \in DOMAIN file |-> ParseLine(file[i])]]

----------------------------------------------------------------------------
(* get_rebalance_insights: the moving-average rule *)

RECURSIVE SumA(_, _, _)
SumA(data, from, to) ==
    IF from > to THEN 0 ELSE data[from].amountA + SumA(data, from + 1, to)

RECURSIVE SumB(_, _, _)
SumB(data, from, to) ==
    IF from > to THEN 0 ELSE data[from].amountB + SumB(data, from + 1, to)

NoAction == [buy |-> FALSE, sell |-> FALSE, rebalance |-> FALSE]

\* Lines 320-332.  avg = sum / window_size, so cur > avg * 1.1 is
\* cur * 100 * window_size > sum * 110.
IndependentFlags(data) ==
    LET n    == Len(data)
        sumA == SumA(data, n - window_size + 1, n)
        sumB == SumB(data, n - window_size + 1, n)
        curA == data[n].amountA
        curB == data[n].amountB
    IN  IF n >= window_size
        THEN [buy       |-> curA * 100 * window_size > sumA * UpperPct,
              sell      |-> curB * 100 * window_size > sumB * UpperPct,
              rebalance |-> \/ curA * 100 * window_size < sumA * LowerPct
                            \/ curB * 100 * window_size < sumB * LowerPct]
        ELSE NoAction

OffByOneWindow(data) ==
    LET n    == Len(data)
        from == IF n >= window_size THEN n - window_size + 1 ELSE 1
        sumA == SumA(data, from, n)
        sumB == SumB(data, from, n)
        curA == data[n].amountA
        curB == data[n].amountB
    IN  IF n >= window_size - 1
        THEN IF curA * 100 * window_size > sumA * UpperPct
             THEN [NoAction EXCEPT !.buy = TRUE]
             ELSE IF curB * 100 * window_size > sumB * UpperPct
             THEN [NoAction EXCEPT !.sell = TRUE]
             ELSE IF \/ curA * 100 * window_size < sumA * LowerPct
                     \/ curB * 100 * window_size < sumB * LowerPct
             THEN [NoAction EXCEPT !.rebalance = TRUE]
             ELSE NoAction
        ELSE NoAction

\* The rule with the last elif of line 330 written as an if.
RebalanceUnchained(data) ==
    LET n    == Len(data)
        from == IF n >= window_size THEN n - window_size + 1 ELSE 1
        sumA == SumA(data, from, n)
        sumB == SumB(data, from, n)
        curA == data[n].amountA
        curB == data[n].amountB
        buy  == curA * 100 * window_size > sumA * UpperPct
        sell == ~buy /\ curB * 100 * window_size > sumB * UpperPct
        reb  == \/ curA * 100 * window_size < sumA * LowerPct
                \/ curB * 100 * window_size < sumB * LowerPct
    IN  IF n >= window_size
        THEN [buy |-> buy, sell |-> sell, rebalance |-> reb]
        ELSE NoAction

Evaluate(data) ==
    LET n    == Len(data)
        sumA == SumA(data, n - window_size + 1, n)
        sumB == SumB(data, n - window_size + 1, n)
        curA == data[n].amountA
        curB == data[n].amountB
    IN  IF n >= window_size
        THEN IF curA * 100 * window_size > sumA * UpperPct
             THEN [NoAction EXCEPT !.buy = TRUE]
             ELSE IF curB * 100 * window_size > sumB * UpperPct
             THEN [NoAction EXCEPT !.sell = TRUE]
             ELSE IF \/ curA * 100 * window_size < sumA * LowerPct
                     \/ curB * 100 * window_size < sumB * LowerPct
             THEN [NoAction EXCEPT !.rebalance = TRUE]
             ELSE NoAction
        ELSE NoAction

----------------------------------------------------------------------------
(* Requests *)

\* A value of the JSON payload: data.get(k) is None when the key is absent.
JNone == [present |-> FALSE, v |-> 0]

JNum(n) == [present |-> TRUE, v |-> n]

\* A non-empty string (an address); v only records that it is truthy.
JAddr == [present |-> TRUE, v |-> 1]

Addresses == {JNone, JAddr}

\* amount_in_pol, amount_in_usd
Amounts == {JNone, JNum(5)}

\* amount_a, amount_b: not all([...]) tells 0 from a positive amount.
PairAmounts == {JNone, JNum(0), JNum(5)}

NoPayload == [none |-> JNone]

\* x is None
IsNone(x) == ~x.present

\* not x, for the values above: None, 0
IsFalsy(x) == ~x.present \/ x.v = 0

\* The body of a response.
Json(code, body, hash) == [kind |-> "json", code |-> code, body |-> body, hash |-> hash]

\* An exception left the view function: the handler produced no response of
\* its own (the framework answers 500 Internal Server Error).
Raised(exc) == [kind |-> "raised", code |-> 500, body |-> exc, hash |-> 0]

\* The view function fell off its end and returned None.
ReturnedNone == [kind |-> "none", code |-> 0, body |-> "None", hash |-> 0]

NoResponse == [kind |-> "pending", code |-> 0, body |-> "", hash |-> 0]

\* One request in flight: the handler, where it stands, its locals (now: the
\* value of time.time() it has formatted into its line), and what it has done
\* so far (called: a chain-client call was attempted; signed: it signed its
\* transaction with private_key; wrote: lines it appended to the file;
\* entries: f.write lines among them).
IdleReq ==
    [op |-> "none", pc |-> "idle", payload |-> NoPayload, missing |-> FALSE,
     decided |-> FALSE, ins |-> NoAction, nonce |-> 0, now |-> 0, tx |-> 0,
     called |-> FALSE, signed |-> FALSE, wrote |-> 0, entries |-> 0,
     resp |-> NoResponse]

\* The required fields of each handler's payload.
Fields(op) ==
    CASE op = "send"           -> {"recipient_address", "amount_in_pol"}
      [] op = "buy_pol"        -> {"amount_in_usd"}
      [] op = "rebalance"      -> {"token_a", "token_b", "amount_a", "amount_b"}
      [] op = "auto_rebalance" -> {"token_a", "token_b", "amount_a", "amount_b"}
      [] OTHER                 -> {}

ValuesOf(field) ==
    CASE field \in {"recipient_address", "token_a", "token_b"} -> Addresses
      [] field \in {"amount_a", "amount_b"}                     -> PairAmounts
      [] OTHER                                                  -> Amounts

Payloads(op) ==
    IF Fields(op) = {} THEN {NoPayload}
    ELSE {p \in [Fields(op) -> Addresses \cup PairAmounts] :
             \A f \in Fields(op) : p[f] \in ValuesOf(f)}

\* The framework hands a request to the view function of its route, in the
\* first free slot.
Free(r) == req[r].pc = "idle" /\ \A o \in Reqs : req[o].pc = "idle" => r <= o

\* data = request.get_json(), with what the handler has done so far.
Arrived(op, p) ==
    [IdleReq EXCEPT !.op = op, !.payload = p,
                    !.missing = \E f \in Fields(op) : IsNone(p[f])]

At(r, op, pc) == req[r].op = op /\ req[r].pc = pc

\* return jsonify(...), code : the handler ends and its locals are gone.
Respond(q, resp) ==
    [q EXCEPT !.pc = "done", !.resp = resp, !.payload = NoPayload, !.now = 0]

----------------------------------------------------------------------------
(* The log file *)

\* except Exception as e: logger.error(...); return jsonify({'error': str(e)}), 500
\* The logger's FileHandler appends the message to the log file.
Fail(r, q) ==
    /\ logFile' = Append(logFile, Message(1))
    /\ req' = [req EXCEPT ![r] =
                 Respond([q EXCEPT !.wrote = q.wrote + 1], Json(500, "error", 0))]

\* logger.info(...) appends its message; then, inside `with open(log_file,
\* 'a') as f`, the f-string is evaluated and time.time() read.  The clock
\* moves on with every reading.
FormatLine(r, q, message) ==
    /\ logFile' = Append(logFile, message)
    /\ clock' = clock + 1
    /\ req' = [req EXCEPT ![r] = [q EXCEPT !.pc = "writing", !.now = clock]]

\* The with block ends: the buffered line is appended to the file in one
\* write, and the handler returns its response.
WriteLine(r, q, line, resp) ==
    /\ logFile' = Append(logFile, line)
    /\ req' = [req EXCEPT ![r] =
                 Respond([q EXCEPT !.wrote = q.wrote + 1, !.entries = q.entries + 1], resp)]

----------------------------------------------------------------------------
(* The chain, as the client library shows it *)

Tx(nonce, state) == [nonce |-> nonce, state |-> state]

PendingAt(n) == {i \in DOMAIN txs : txs[i].state = "pending" /\ txs[i].nonce = n}

\* The nonce the node gives a transaction sent without one: the first one
\* after the mined transactions that no pending transaction holds.
RECURSIVE FreeFrom(_)
FreeFrom(n) == IF PendingAt(n) = {} THEN n ELSE FreeFrom(n + 1)

NextNonce == FreeFrom(mined)

\* w3.eth.get_transaction_count(wallet_address): the default block is
\* 'latest', so pending transactions are not counted.
TransactionCount == mined

\* A well-formed line left in the file by an earlier writer.
BootLine(a, b) == Line("boot", <<IntTok(0), FloatTok(a), FloatTok(b)>>)

Steady == BootLine(100, 100)

HighA == BootLine(115, 100)

HighALowB == BootLine(115, 85)

HighB == BootLine(100, 115)

LowA == BootLine(85, 100)

\* Ten lines whose last one lies below the band: rebalance.
RebalanceLog == [i \in 1..window_size |-> IF i = window_size THEN LowA ELSE Steady]

\* Ten lines of average 100 whose last one is 115: buy (and amount_b below
\* its band as well).
BuyLog ==
    [i \in 1..window_size |->
        IF i = window_size THEN HighALowB ELSE IF i = 1 THEN LowA ELSE Steady]

\* The log file is opened for appending and outlives the process: it starts
\* empty or holds what was there before.
BootLogs == {<<>>, RebalanceLog, BuyLog}

Init ==
    /\ logFile \in BootLogs
    /\ boot = logFile
    /\ clock = 1
    /\ req = [r \in Reqs |-> IdleReq]
    /\ txs = <<>>
    /\ mined = 0
    /\ started = 0

\* The framework has sent the response; the slot takes the next request.
Reply(r) ==
    /\ req[r].pc = "done"
    /\ req' = [req EXCEPT ![r] = IdleReq]
    /\ UNCHANGED <<logFile, boot, clock, txs, mined, started>>

----------------------------------------------------------------------------
(* Submitting and confirming *)

\* The node takes the transaction into its pool.
Accepted(r, q, n) ==
    /\ txs' = Append(txs, Tx(n, "pending"))
    /\ req' = [req EXCEPT ![r] =
                 [q EXCEPT !.pc = "confirming", !.tx = Len(txs) + 1, !.called = TRUE]]
    /\ UNCHANGED logFile

\* The call raised before the node took anything (RPC failure, gas
\* estimation, a missing attribute of the client).
CallRaised(r, q) ==
    /\ Fail(r, [q EXCEPT !.called = TRUE])
    /\ UNCHANGED txs

\* w3.eth.send_transaction(tx) / .transact(): no nonce given, the node assigns
\* the next one.
SendAssigned(r, q) ==
    \/ Accepted(r, q, NextNonce)
    \/ CallRaised(r, q)

\* A transaction that carries nonce n.  A nonce below the mined count is
\* refused; a nonce a pending transaction holds either replaces that
\* transaction or is refused.
SendWithNonce(r, q, n) ==
    \/ /\ n >= mined
       /\ PendingAt(n) = {}
       /\ Accepted(r, q, n)
    \/ /\ PendingAt(n) # {}
       /\ txs' = Append([i \in DOMAIN txs |->
                           IF i \in PendingAt(n) THEN Tx(n, "replaced") ELSE txs[i]],
                        Tx(n, "pending"))
       /\ req' = [req EXCEPT ![r] =
                    [q EXCEPT !.pc = "confirming", !.tx = Len(txs) + 1, !.called = TRUE]]
       /\ UNCHANGED logFile
    \/ /\ n < mined \/ PendingAt(n) # {}
       /\ txs' = Append(txs, Tx(n, "rejected"))
       /\ Fail(r, [q EXCEPT !.called = TRUE, !.tx = Len(txs) + 1])
    \/ CallRaised(r, q)

\* w3.eth.wait_for_transaction_receipt(tx_hash): returns the receipt of a
\* mined transaction, whatever its status field says; raises TimeExhausted
\* when the transaction is not mined in time.
WaitForReceipt(r, q) ==
    \/ /\ txs[q.tx].state \in {"ok", "reverted"}
       /\ req' = [req EXCEPT ![r] = [q EXCEPT !.pc = "logging"]]
       /\ UNCHANGED logFile
    \/ /\ txs[q.tx].state \in {"pending", "replaced"}
       /\ Fail(r, q)

\* The chain mines the wallet's next pending transaction; it succeeds
\* (status 1) or reverts (status 0).
Mine(i) ==
    /\ i \in DOMAIN txs
    /\ txs[i].state = "pending"
    /\ txs[i].nonce = mined
    /\ \E s \in {"ok", "reverted"} : txs' = [txs EXCEPT ![i].state = s]
    /\ mined' = mined + 1
    /\ UNCHANGED <<logFile, boot, clock, req, started>>

----------------------------------------------------------------------------
(* /send : send_transaction *)

\* Lines 86-91.
send_transaction_validate(r) ==
    /\ Free(r)
    /\ \E p \in Payloads("send") :
         LET q == Arrived("send", p) IN
         req' = [req EXCEPT ![r] =
                   IF IsNone(p["recipient_address"]) \/ IsNone(p["amount_in_pol"])
                   THEN Respond(q, Json(400, "error", 0))
                   ELSE [q EXCEPT !.pc = "submitting"]]
    /\ UNCHANGED <<logFile, boot, clock, txs, mined>>

\* Lines 93-101: to_wei, then w3.eth.send_transaction of the unsigned
\* dictionary: the handler signs nothing, private_key is not used.
send_transaction_submit(r) ==
    /\ At(r, "send", "submitting")
    /\ SendAssigned(r, req[r])
    /\ UNCHANGED <<boot, clock, mined, started>>

\* Line 102.
send_transaction_confirm(r) ==
    /\ At(r, "send", "confirming")
    /\ WaitForReceipt(r, req[r])
    /\ UNCHANGED <<boot, clock, txs, mined, started>>

\* Lines 104-108: logger.info, then the f-string of line 108 is evaluated:
\* time.time() is read.  The text reaches the file when the with block
\* closes it; no lock is held in between.
send_transaction_log(r) ==
    LET q == req[r] IN
    /\ At(r, "send", "logging")
    /\ FormatLine(r, [q EXCEPT !.wrote = q.wrote + 1], Message(1))
    /\ UNCHANGED <<boot, txs, mined, started>>

\* send_transaction_write with the file of line 107 opened in mode 'w': the
\* line replaces what the file held.
send_transaction_write_truncating(r) ==
    LET q == req[r] IN
    /\ At(r, "send", "writing")
    /\ logFile' = <<FormatEntry(q.now, IntTok(q.payload["amount_in_pol"].v), TextTok)>>
    /\ req' = [req EXCEPT ![r] =
                 Respond([q EXCEPT !.wrote = q.wrote + 1, !.entries = q.entries + 1],
                         Json(200, "transaction_hash", q.tx))]
    /\ UNCHANGED <<boot, clock, txs, mined, started>>

\* Lines 107-112: the line is written as the file is closed, then the
\* response.
send_transaction_write(r) ==
    LET q == req[r] IN
    /\ At(r, "send", "writing")
    /\ WriteLine(r, q, FormatEntry(q.now, IntTok(q.payload["amount_in_pol"].v), TextTok),
                 Json(200, "transaction_hash", q.tx))
    /\ UNCHANGED <<boot, clock, txs, mined, started>>

----------------------------------------------------------------------------
(* /buy-pol : buy_pol *)

\* Lines 123-127.
buy_pol_validate(r) ==
    /\ Free(r)
    /\ \E p \in Payloads("buy_pol") :
         LET q == Arrived("buy_pol", p) IN
         req' = [req EXCEPT ![r] =
                   IF IsNone(p["amount_in_usd"])
                   THEN Respond(q, Json(400, "error", 0))
                   ELSE [q EXCEPT !.pc = "quoting"]]
    /\ UNCHANGED <<logFile, boot, clock, txs, mined>>

\* Lines 129-152.  get_pol_price() is the view function of lines 439-462: it
\* answers with the pair (response, status) whether the oracle call worked or
\* not (on failure its logger.error has written a message), so the division
\* of line 132 raises TypeError.  The outcome in which the call yields a
\* number and the handler goes on to the quote is kept beside it.
buy_pol_quote(r) ==
    LET q == [req[r] EXCEPT !.called = TRUE] IN
    /\ At(r, "buy_pol", "quoting")
    /\ \/ Fail(r, q)
       \/ /\ logFile' = Append(Append(logFile, Message(1)), Message(1))
          /\ req' = [req EXCEPT ![r] =
                       Respond([q EXCEPT !.wrote = q.wrote + 2], Json(500, "error", 0))]
       \/ /\ req' = [req EXCEPT ![r] = [q EXCEPT !.pc = "building"]]
          /\ UNCHANGED logFile
    /\ UNCHANGED <<boot, clock, txs, mined, started>>

\* Lines 155-164: buildTransaction with the wallet's transaction count as
\* the nonce.
buy_pol_build(r) ==
    LET q == req[r] IN
    /\ At(r, "buy_pol", "building")
    /\ \/ /\ req' = [req EXCEPT ![r] =
                       [q EXCEPT !.pc = "submitting", !.nonce = TransactionCount]]
          /\ UNCHANGED logFile
       \/ Fail(r, q)
    /\ UNCHANGED <<boot, clock, txs, mined, started>>

\* Lines 167-168: sign_transaction with private_key, send_raw_transaction.
buy_pol_submit(r) ==
    /\ At(r, "buy_pol", "submitting")
    /\ SendWithNonce(r, [req[r] EXCEPT !.signed = TRUE], req[r].nonce)
    /\ UNCHANGED <<boot, clock, mined, started>>

\* Line 169.
buy_pol_confirm(r) ==
    /\ At(r, "buy_pol", "confirming")
    /\ WaitForReceipt(r, req[r])
    /\ UNCHANGED <<boot, clock, txs, mined, started>>

\* Lines 171-175: logger.info, then time.time() is read for the line.
buy_pol_log(r) ==
    LET q == req[r] IN
    /\ At(r, "buy_pol", "logging")
    /\ FormatLine(r, [q EXCEPT !.wrote = q.wrote + 1], Message(1))
    /\ UNCHANGED <<boot, txs, mined, started>>

\* Lines 174-179.  amount_in_pol is a quotient, a float.
buy_pol_write(r) ==
    LET q == req[r] IN
    /\ At(r, "buy_pol", "writing")
    /\ WriteLine(r, q, FormatEntry(q.now, FloatTok(q.payload["amount_in_usd"].v),
                                          IntTok(q.payload["amount_in_usd"].v)),
                 Json(200, "transaction_hash", q.tx))
    /\ UNCHANGED <<boot, clock, txs, mined, started>>

----------------------------------------------------------------------------
(* /rebalance : rebalance *)

\* Lines 237-244: not all([...]) also refuses a 0 or an empty string.
rebalance_validate(r) ==
    /\ Free(r)
    /\ \E p \in Payloads("rebalance") :
         LET q == Arrived("rebalance", p) IN
         req' = [req EXCEPT ![r] =
                   IF \E f \in Fields("rebalance") : IsFalsy(p[f])
                   THEN Respond(q, Json(400, "error", 0))
                   ELSE [q EXCEPT !.pc = "submitting"]]
    /\ UNCHANGED <<logFile, boot, clock, txs, mined>>

\* Lines 246-271: get_balance twice, the router, addLiquidity(...).transact:
\* the node is asked to sign and send.
rebalance_submit(r) ==
    /\ At(r, "rebalance", "submitting")
    /\ SendAssigned(r, req[r])
    /\ UNCHANGED <<boot, clock, mined, started>>

\* Line 274.
rebalance_confirm(r) ==
    /\ At(r, "rebalance", "confirming")
    /\ WaitForReceipt(r, req[r])
    /\ UNCHANGED <<boot, clock, txs, mined, started>>

\* Lines 276-280.  The message 'Rebalanced tokens: .., ..' holds a comma;
\* then time.time() is read for the line.
rebalance_log(r) ==
    LET q == req[r] IN
    /\ At(r, "rebalance", "logging")
    /\ FormatLine(r, [q EXCEPT !.wrote = q.wrote + 1], Message(2))
    /\ UNCHANGED <<boot, txs, mined, started>>

\* Lines 279-284.
rebalance_write(r) ==
    LET q == req[r] IN
    /\ At(r, "rebalance", "writing")
    /\ WriteLine(r, q, FormatEntry(q.now, IntTok(q.payload["amount_a"].v),
                                          IntTok(q.payload["amount_b"].v)),
                 Json(200, "transaction_hash", q.tx))
    /\ UNCHANGED <<boot, clock, txs, mined, started>>

----------------------------------------------------------------------------
(* /rebalance-insights : get_rebalance_insights *)

\* Lines 310-332: what the function computes from the file; ok = FALSE is
\* the ValueError that leaves it.
Insights(file) ==
    LET read == ReadAll(file) IN
    [ok  |-> read.ok,
     ins |-> IF read.ok THEN Evaluate(read.data) ELSE NoAction]

\* Lines 292-339.  There is no try: a line that does not parse ends the
\* request with the exception.
get_rebalance_insights(r) ==
    LET q == Arrived("insights", NoPayload) IN
    /\ Free(r)
    /\ \E answer \in {Insights(logFile)} :
         req' = [req EXCEPT ![r] =
                   IF ~answer.ok
                   THEN Respond(q, Raised("ValueError"))
                   ELSE Respond([q EXCEPT !.decided = TRUE, !.ins = answer.ins],
                                Json(200, "insights", 0))]
    /\ UNCHANGED <<logFile, boot, clock, txs, mined>>

----------------------------------------------------------------------------
(* /auto-rebalance : auto_rebalance *)

AnyRecommendation(ins) == ins.buy \/ ins.sell \/ ins.rebalance

\* The test of line 355: insights.get('rebalance').
Recommended(ins) == ins.rebalance

\* Lines 350-365.  get_rebalance_insights() runs first, outside any try, so
\* its ValueError leaves this handler too.  It answers with the pair
\* (response, 200), on which .json() raises AttributeError; the outcome in
\* which .json() yields the insights is kept beside it.  With no
\* recommendation the function ends without a return statement.
auto_rebalance_insights(r) ==
    /\ Free(r)
    /\ \E answer \in {Insights(logFile)}, p \in Payloads("auto_rebalance") :
         LET q == Arrived("auto_rebalance", p) IN
         \/ /\ ~answer.ok
            /\ req' = [req EXCEPT ![r] = Respond(q, Raised("ValueError"))]
         \/ /\ answer.ok
            /\ req' = [req EXCEPT ![r] = Respond(q, Raised("AttributeError"))]
         \/ /\ answer.ok
            /\ LET d == [q EXCEPT !.decided = TRUE, !.ins = answer.ins] IN
               req' = [req EXCEPT ![r] =
                         IF Recommended(d.ins)
                         THEN IF \E f \in Fields("auto_rebalance") : IsFalsy(p[f])
                              THEN Respond(d, Json(400, "error", 0))
                              ELSE [d EXCEPT !.pc = "building"]
                         ELSE Respond(d, ReturnedNone)]
    /\ UNCHANGED <<logFile, boot, clock, txs, mined>>

\* Lines 367-398: balances, the quote, buildTransaction with the wallet's
\* transaction count as the nonce.
auto_rebalance_build(r) ==
    LET q == [req[r] EXCEPT !.called = TRUE] IN
    /\ At(r, "auto_rebalance", "building")
    /\ \/ /\ req' = [req EXCEPT ![r] =
                       [q EXCEPT !.pc = "submitting", !.nonce = TransactionCount]]
          /\ UNCHANGED logFile
       \/ Fail(r, q)
    /\ UNCHANGED <<boot, clock, txs, mined, started>>

\* Line 401: w3.eth.send_transaction of the built transaction, nonce
\* included, unsigned.
auto_rebalance_submit(r) ==
    /\ At(r, "auto_rebalance", "submitting")
    /\ SendWithNonce(r, req[r], req[r].nonce)
    /\ UNCHANGED <<boot, clock, mined, started>>

\* Line 402.
auto_rebalance_confirm(r) ==
    /\ At(r, "auto_rebalance", "confirming")
    /\ WaitForReceipt(r, req[r])
    /\ UNCHANGED <<boot, clock, txs, mined, started>>

\* Lines 404-408: logger.info and the response; nothing is written with
\* f.write.
auto_rebalance_log(r) ==
    LET q == req[r] IN
    /\ At(r, "auto_rebalance", "logging")
    /\ logFile' = Append(logFile, Message(1))
    /\ req' = [req EXCEPT ![r] =
                 Respond([q EXCEPT !.wrote = q.wrote + 1],
                         Json(200, "transaction_hash", q.tx))]
    /\ UNCHANGED <<boot, clock, txs, mined, started>>

----------------------------------------------------------------------------
(* The read endpoints *)

\* Lines 416-437.
get_log(r) ==
    LET q == Arrived("get_log", NoPayload) IN
    /\ Free(r)
    /\ \/ /\ req' = [req EXCEPT ![r] = Respond(q, Json(200, "log", 0))]
          /\ UNCHANGED logFile
       \/ Fail(r, q)
    /\ UNCHANGED <<boot, clock, txs, mined>>

\* Lines 187-223, the first function of this name: it writes the price to the
\* log file.  Lines 187 and 439 register two view functions for the same route
\* under the same name; a request for the route is admitted to either one.
get_pol_price(r) ==
    LET q == [Arrived("get_pol_price", NoPayload) EXCEPT !.called = TRUE] IN
    /\ Free(r)
    /\ \/ /\ req' = [req EXCEPT ![r] = [q EXCEPT !.pc = "writing", !.now = clock]]
          /\ clock' = clock + 1
          /\ UNCHANGED logFile
       \/ /\ Fail(r, q)
          /\ UNCHANGED clock
    /\ UNCHANGED <<boot, txs, mined>>

\* Lines 213-217: the price line is written as the file is closed, then the
\* response.
get_pol_price_write(r) ==
    LET q == req[r] IN
    /\ At(r, "get_pol_price", "writing")
    /\ logFile' = Append(logFile, FormatPrice(q.now, 1))
    /\ req' = [req EXCEPT ![r] =
                 Respond([q EXCEPT !.wrote = q.wrote + 1], Json(200, "price", 0))]
    /\ UNCHANGED <<boot, clock, txs, mined, started>>

\* Lines 439-462, the second function of this name.
get_pol_price_redef(r) ==
    LET q == [Arrived("get_pol_price_redef", NoPayload) EXCEPT !.called = TRUE] IN
    /\ Free(r)
    /\ \/ /\ req' = [req EXCEPT ![r] = Respond(q, Json(200, "price", 0))]
          /\ UNCHANGED logFile
       \/ Fail(r, q)
    /\ UNCHANGED <<boot, clock, txs, mined>>

\* Lines 464-487.
get_dai_price(r) ==
    LET q == [Arrived("get_dai_price", NoPayload) EXCEPT !.called = TRUE] IN
    /\ Free(r)
    /\ \/ /\ req' = [req EXCEPT ![r] = Respond(q, Json(200, "price", 0))]
          /\ UNCHANGED logFile
       \/ Fail(r, q)
    /\ UNCHANGED <<boot, clock, txs, mined>>

----------------------------------------------------------------------------
(* The service *)

\* No response is waiting to be sent.
Running == \A r \in Reqs : req[r].pc # "done"

\* The framework accepts one more request.
Admit == Running /\ started < MaxRequests /\ started' = started + 1

\* A view function that has returned is followed at once by the framework
\* sending its response: the request takes no further step of its own, so
\* nothing is lost by letting no other step come in between.
Next ==
    \/ \E r \in Reqs : Admit /\ send_transaction_validate(r)
    \/ \E r \in Reqs : Admit /\ buy_pol_validate(r)
    \/ \E r \in Reqs : Admit /\ rebalance_validate(r)
    \/ \E r \in Reqs : Admit /\ get_rebalance_insights(r)
    \/ \E r \in Reqs : Admit /\ auto_rebalance_insights(r)
    \/ \E r \in Reqs : Admit /\ get_log(r)
    \/ \E r \in Reqs : Admit /\ get_pol_price(r)
    \/ \E r \in Reqs : Admit /\ get_pol_price_redef(r)
    \/ \E r \in Reqs : Admit /\ get_dai_price(r)
    \/ \E r \in Reqs : Running /\ send_transaction_submit(r)
    \/ \E r \in Reqs : Running /\ send_transaction_confirm(r)
    \/ \E r \in Reqs : Running /\ send_transaction_log(r)
    \/ \E r \in Reqs : Running /\ send_transaction_write(r)
    \/ \E r \in Reqs : Running /\ buy_pol_quote(r)
    \/ \E r \in Reqs : Running /\ buy_pol_build(r)
    \/ \E r \in Reqs : Running /\ buy_pol_submit(r)
    \/ \E r \in Reqs : Running /\ buy_pol_confirm(r)
    \/ \E r \in Reqs : Running /\ buy_pol_log(r)
    \/ \E r \in Reqs : Running /\ buy_pol_write(r)
    \/ \E r \in Reqs : Running /\ rebalance_submit(r)
    \/ \E r \in Reqs : Running /\ rebalance_confirm(r)
    \/ \E r \in Reqs : Running /\ rebalance_log(r)
    \/ \E r \in Reqs : Running /\ rebalance_write(r)
    \/ \E r \in Reqs : Running /\ auto_rebalance_build(r)
    \/ \E r \in Reqs : Running /\ auto_rebalance_submit(r)
    \/ \E r \in Reqs : Running /\ auto_rebalance_confirm(r)
    \/ \E r \in Reqs : Running /\ auto_rebalance_log(r)
    \/ \E r \in Reqs : Running /\ get_pol_price_write(r)
    \/ \E i \in DOMAIN txs : Running /\ Mine(i)
    \/ \E r \in Reqs : Reply(r)

Spec == Init /\ [][Next]_vars

----------------------------------------------------------------------------
(* The moving-average rule over log files of every shape: an outside       *)
(* writer fills the file with well-formed lines, the service answers       *)
(* /rebalance-insights.                                                    *)

OutsideLines == {Steady, HighA, HighALowB, HighB, LowA}

Odd(file) == {i \in DOMAIN file : file[i] # Steady}

OutsideAppend(line) ==
    /\ Len(logFile) < MaxLines
    /\ line # Steady => Cardinality(Odd(logFile)) < MaxOdd
    /\ \A r \in Reqs : req[r].pc = "idle"
    /\ logFile' = Append(logFile, line)
    /\ UNCHANGED <<boot, clock, req, txs, mined, started>>

InitEval ==
    /\ logFile = <<>>
    /\ boot = logFile
    /\ clock = 1
    /\ req = [r \in Reqs |-> IdleReq]
    /\ txs = <<>>
    /\ mined = 0
    /\ started = 0

NextEval ==
    \/ \E line \in OutsideLines : OutsideAppend(line)
    \/ \E r \in Reqs : get_rebalance_insights(r) /\ UNCHANGED started
    \/ \E r \in Reqs : Reply(r)

SpecEval == InitEval /\ [][NextEval]_vars

----------------------------------------------------------------------------
(* Claims *)

Mutating == {"send", "buy_pol", "rebalance", "auto_rebalance"}

Done(r) == req[r].pc = "done"

Ok200(r) == req[r].resp.kind = "json" /\ req[r].resp.code = 200

\* C1: /auto-rebalance submits no transaction unless the decision it read
\* from get_rebalance_insights has rebalance = true: a request that has gone
\* past line 355, or that holds a transaction, read rebalance = true.
C1_NoSubmitUnlessRebalance ==
    \A r \in Reqs :
        /\ req[r].op = "auto_rebalance"
        /\ req[r].tx # 0 \/ req[r].called \/ req[r].pc \in {"building", "submitting", "confirming", "logging"}
        => req[r].decided /\ req[r].ins.rebalance

\* A request that read buy = true, rebalance = false and ended with no
\* transaction.
C1_Witness ==
    \E r \in Reqs :
        /\ req[r].op = "auto_rebalance" /\ Done(r)
        /\ req[r].decided /\ req[r].ins.buy /\ ~req[r].ins.rebalance
        /\ ~req[r].missing /\ req[r].tx = 0 /\ txs = <<>>

\* C2: a mutating endpoint answers a payload with a missing required field
\* with 400, having attempted no chain-client call, submitted no transaction
\* and written nothing to the log file.
C2_MissingFieldIs400 ==
    \A r \in Reqs :
        req[r].op \in Mutating /\ req[r].missing /\ Done(r)
        => /\ req[r].resp.kind = "json" /\ req[r].resp.code = 400
           /\ ~req[r].called /\ req[r].tx = 0 /\ req[r].wrote = 0

\* C3: a pipeline operation that has written its line to the log file holds
\* a transaction that was mined with success.
C3_EntryOnlyAfterConfirm ==
    \A r \in Reqs :
        req[r].entries > 0 => req[r].tx # 0 /\ txs[req[r].tx].state = "ok"

\* The operations that read the wallet's transaction count for the nonce.
ReadsNonce(r) == req[r].op \in {"buy_pol", "auto_rebalance"}

C5_ShortLogAllFalse ==
    \A r \in Reqs :
        req[r].op = "insights" /\ Done(r) /\ Len(logFile) < 10
        => /\ Ok200(r)
           /\ ~req[r].ins.buy /\ ~req[r].ins.sell /\ ~req[r].ins.rebalance

\* Nine lines, the last one 15% above the others, answered all false.
C5_Witness ==
    \E r \in Reqs :
        /\ req[r].op = "insights" /\ Done(r) /\ Ok200(r)
        /\ Len(logFile) = 9 /\ logFile[9] = HighALowB
        /\ req[r].ins = NoAction

\* The amounts of the last ten lines of the file, as written.
ColA(file) == [i \in 1..10 |-> file[Len(file) - 10 + i].fields[2].v]

ColB(file) == [i \in 1..10 |-> file[Len(file) - 10 + i].fields[3].v]

RECURSIVE Total(_)
Total(col) == IF col = <<>> THEN 0 ELSE Head(col) + Total(Tail(col))

\* cur > 1.1 * (total / 10)
Above(cur, total) == 100 * cur > 11 * total

\* cur < 0.9 * (total / 10)
Below(cur, total) == 100 * cur < 9 * total

C7_RoundTrip ==
    Len(logFile) > 0 /\ logFile[Len(logFile)].kind = "entry"
    => /\ ReadAll(logFile).ok
       /\ LET line == logFile[Len(logFile)] IN
          ReadAll(logFile).data[Len(logFile)] =
              [timestamp |-> line.fields[1].v,
               amountA   |-> line.fields[2].v,
               amountB   |-> line.fields[3].v]

\* The file holds only what requests that succeeded have written: the
\* f.write lines, each pipeline line after the logger.info message of its
\* operation.
OnlySuccesses(file) ==
    \A i \in DOMAIN file :
        \/ file[i].kind \in {"entry", "price"}
        \/ file[i].kind = "msg" /\ i < Len(file) /\ file[i + 1].kind = "entry"

\* C8: started on an empty log file, /rebalance-insights answers 200 with a
\* decision whatever the endpoints have written to the file since.
C8_InsightsAlways200 ==
    boot = <<>> /\ OnlySuccesses(logFile)
    => \A r \in Reqs : req[r].op = "insights" /\ Done(r) => Ok200(r)

\* C9: /auto-rebalance on a log file whose decision has rebalance = false
\* ends with a 200 response.
C9_NoOpSuccess ==
    \A r \in Reqs :
        /\ req[r].op = "auto_rebalance" /\ Done(r)
        /\ Insights(logFile).ok /\ ~Insights(logFile).ins.rebalance
        => Ok200(r)

\* C10: a pipeline operation that answered 200 has written exactly one line
\* with f.write and answers with the hash of its transaction, which was
\* mined with success.
C10_SuccessAppendsOne ==
    \A r \in Reqs :
        req[r].op \in Mutating /\ Done(r) /\ Ok200(r)
        => /\ req[r].entries = 1
           /\ req[r].tx # 0 /\ req[r].resp.hash = req[r].tx
           /\ txs[req[r].tx].state = "ok"

\* A line the reader cannot take: another number of fields than three, or a
\* field whose text is not a number.
Malformed(line) ==
    \/ Len(line.fields) # 3
    \/ \E i \in DOMAIN line.fields : line.fields[i].t = "text"

\* C11: when /rebalance-insights reads a log file that holds a malformed
\* line, the request ends with an error response of the handler that reports
\* the parse failure: the line is not skipped (no decision is answered) and
\* no exception leaves the view function.
C11_MalformedLineIsParseError ==
    [][\A r \in Reqs :
          /\ req[r].pc = "idle" /\ req'[r].op = "insights"
          /\ \E i \in DOMAIN logFile : Malformed(logFile[i])
          => /\ ~req'[r].decided
             /\ req'[r].resp.kind = "json" /\ req'[r].resp.code # 200]_vars

IsPrefix(s, t) == Len(s) <= Len(t) /\ \A i \in DOMAIN s : s[i] = t[i]

\* C12: the log file is append-only: whatever step is taken, by whichever
\* request, the file before the step is a prefix of the file after it.
C12_AppendOnly == [][IsPrefix(logFile, logFile')]_vars

\* Two requests in flight have both written to a file that was not empty when
\* the process started, and its old lines are still its first lines.
C12_Witness ==
    /\ boot # <<>>
    /\ \A r \in Reqs : req[r].wrote > 0
    /\ \E r \in Reqs : req[r].entries > 0
    /\ IsPrefix(boot, logFile)

\* The lines of the file that pipeline operations wrote with f.write.
Entries(file) == {i \in DOMAIN file : file[i].kind = "entry"}

\* C13: the entries of the log file are in chronological order: no entry
\* carries a timestamp smaller than that of an entry before it in the file.
C13_Chronological ==
    \A i, j \in Entries(logFile) :
        i < j => logFile[i].fields[1].v <= logFile[j].fields[1].v

\* C14: every request ends with a response its handler returned: a failure
\* at any stage is caught in the handler and answered with a JSON error
\* body; no exception leaves a view function and none ends without a
\* response.
C14_FailuresAnswered ==
    \A r \in Reqs : Done(r) => req[r].resp.kind = "json"

\* C15: a pipeline operation submits its transaction only after validation
\* has passed and the transaction has been signed with the configured key:
\* a request that holds a transaction has a complete payload and has signed.
C15_SubmitAfterSigning ==
    \A r \in Reqs :
        req[r].op \in Mutating /\ req[r].tx # 0
        => ~req[r].missing /\ req[r].signed

\* The handlers of the read endpoints: /rebalance-insights, /get-pol-price
\* (both functions), /get-dai-price, /log.
ReadOps == {"insights", "get_pol_price", "get_pol_price_redef", "get_dai_price", "get_log"}

\* C16: a read endpoint, whether it succeeds or fails, appends nothing to
\* the log file.
C16_ReadsLeaveLog ==
    \A r \in Reqs : req[r].op \in ReadOps => req[r].wrote = 0

\* The flags a decision sets.
Flags(ins) == {f \in {"buy", "sell", "rebalance"} : ins[f]}

\* C17: a decision that get_rebalance_insights has answered sets at most one
\* of buy, sell and rebalance.
C17_AtMostOneFlag ==
    \A r \in Reqs : req[r].decided => Cardinality(Flags(req[r].ins)) <= 1

\* A decision on eleven lines whose last one has amount_a above its band
\* and amount_b below its band: two tests of the rule are true, one flag is
\* set.
C17_Witness ==
    \E r \in Reqs :
        /\ req[r].op = "insights" /\ Done(r) /\ req[r].decided
        /\ Len(logFile) = 11
        /\ Above(ColA(logFile)[10], Total(ColA(logFile)))
        /\ Below(ColB(logFile)[10], Total(ColB(logFile)))
        /\ Flags(req[r].ins) = {"buy"}

====
